---- MODULE Spec2Model ----
(***************************************************************************)
(* Model of examples/external-trigger-example.py: the External Trigger API *)
(* client (trigger_job, get_job_status), the bounded polling loop          *)
(* wait_for_completion with its display helper _print_status, and the      *)
(* command-line flow main.                                                 *)
(*                                                                         *)
(* A behaviour is one run of one entry point: either the script itself     *)
(* (entry = "main", which always waits with the default parameters) or a   *)
(* direct call of wait_for_completion with arbitrary parameters            *)
(* (entry = "wait").  The remote service is the environment: every request *)
(* is answered by a nondeterministically chosen HTTP result.               *)
(***************************************************************************)
EXTENDS Integers, Sequences, FiniteSets, TLC

VARIABLES
    entry,          \* "main": the script is run; "wait": wait_for_completion is called directly
    argc,           \* len(sys.argv)
    pc,             \* position of the single thread of control
    maxAttempts,    \* parameter max_attempts
    sleepInterval,  \* parameter sleep_interval
    verbose,        \* parameter verbose
    attempt,        \* loop variable of the for loop (0: not yet bound)
    status,         \* local `status`: the dict returned by the last get_job_status
    jobStatus,      \* local `job_status`
    result,         \* the dict wait_for_completion returned (valid when outcome = "returned")
    outcome,        \* how wait_for_completion ended: "none", "returned" or an exception name
    raisedIn,       \* the function whose statement raised the exception ("" if none)
    message,        \* the number of seconds named by the TimeoutError message (-1: none)
    triggerOutcome, \* how trigger_job ended: "none", "ok" or an exception name
    calls,          \* get_job_status invocations
    sleeps,         \* time.sleep invocations
    slept,          \* total seconds passed to time.sleep
    lastSleep,      \* argument of the last time.sleep (-1: none)
    posts,          \* HTTP POST requests sent (state-changing requests seen by the service)
    gets,           \* HTTP GET requests sent
    lastRequest,    \* what the last request sent was: "", "trigger", "status"
    displayed,      \* attempts for which _print_status printed its first line, in order
    lastLine,       \* fields of the last first line printed by _print_status
    batchLine,      \* whether the last _print_status call printed the "Batch Progress" line
    pollAnswer,     \* what the service did with the last status request ("": none yet)
    served,         \* body of the last 2xx JSON answer of the service to a status request
    nonTerminalPolls, \* get_job_status calls that returned a dict with a non-terminal status
    exitCode,       \* process exit status (-1: the process has not exited)
    exitVia         \* "": not exited, "sys.exit": a sys.exit call of main, "uncaught": traceback

vars == <<entry, argc, pc, maxAttempts, sleepInterval, verbose, attempt, status,
          jobStatus, result, outcome, raisedIn, message, triggerOutcome, calls,
          sleeps, slept, lastSleep, posts, gets, lastRequest, displayed, lastLine,
          batchLine, pollAnswer, served, nonTerminalPolls, exitCode, exitVia>>

(***************************************************************************)
(* Bounds of the model and constants of the program.                       *)
(***************************************************************************)
MaxAttemptsBound == 3       \* largest max_attempts of a direct call
MaxInterval == 2            \* largest sleep_interval of a direct call
MaxArgc == 3                \* largest len(sys.argv) tried
DefaultMaxAttempts == 60    \* wait_for_completion(max_attempts=60)
DefaultSleepInterval == 2   \* wait_for_completion(sleep_interval=2)
DefaultVerbose == TRUE      \* wait_for_completion(verbose=True)
UsageArgc == 2              \* main: len(sys.argv) != 2

(***************************************************************************)
(* Status payloads.  A JSON object is modelled by the set of keys it has   *)
(* and the values of those keys; an absent key has the filler value.       *)
(***************************************************************************)
TerminalStatuses == {"SUCCEEDED", "FAILED"}

\* SUCCEEDED, FAILED, a non-terminal value and a value in another spelling
StatusValues == {"ENQUEUED", "SUCCEEDED", "FAILED", "succeeded"}

BatchCounters == {"total", "succeeded", "failed", "pending", "progress"}

\* batchProgress values served: {} (falsy), complete, one lacking a counter
BatchValues == {{}, BatchCounters, BatchCounters \ {"pending"}}

\* the optional display labels a payload carries
LabelKeys == {{}, {"jobName"}, {"jobName", "jobType"}}

Dict(keys, st, bk) ==
    [keys |-> keys,
     status |-> IF "status" \in keys THEN st ELSE "",
     jobName |-> IF "jobName" \in keys THEN "nightly-import" ELSE "",
     jobType |-> IF "jobType" \in keys THEN "BatchJob" ELSE "",
     batchProgress |-> IF "batchProgress" \in keys THEN bk ELSE {}]

EmptyDict == Dict({}, "", {})

Bodies ==
    {Dict(k \cup l, st, bk) : k \in SUBSET {"status", "batchProgress"}, l \in LabelKeys,
                            st \in StatusValues, bk \in BatchValues}

\* dict.get(key, default) for the string-valued keys
Get(d, key, default) == IF key \in d.keys THEN d[key] ELSE default

\* What the service does with one request.
HttpResults == {"ok", "http_error", "connection_error", "bad_json"}

NoLine == [attempt |-> 0, jobName |-> "", jobType |-> "", status |-> ""]

IsTerminal(s) == s \in TerminalStatuses

(***************************************************************************)
(* Initial states.                                                         *)
(***************************************************************************)
Init ==
    /\ entry \in {"main", "wait"}
    /\ IF entry = "main"
       THEN /\ argc \in 1..MaxArgc
            /\ pc = "args"
            /\ maxAttempts = DefaultMaxAttempts
            /\ sleepInterval = DefaultSleepInterval
            /\ verbose = DefaultVerbose
       ELSE /\ argc = 0
            /\ pc = "for"
            /\ maxAttempts \in -1..MaxAttemptsBound
            /\ sleepInterval \in 0..MaxInterval
            /\ verbose \in BOOLEAN
    /\ attempt = 0
    /\ status = EmptyDict
    /\ jobStatus = ""
    /\ result = EmptyDict
    /\ outcome = "none"
    /\ raisedIn = ""
    /\ message = -1
    /\ triggerOutcome = "none"
    /\ calls = 0
    /\ sleeps = 0
    /\ slept = 0
    /\ lastSleep = -1
    /\ posts = 0
    /\ gets = 0
    /\ lastRequest = ""
    /\ displayed = <<>>
    /\ lastLine = NoLine
    /\ batchLine = FALSE
    /\ pollAnswer = ""
    /\ served = EmptyDict
    /\ nonTerminalPolls = 0
    /\ exitCode = -1
    /\ exitVia = ""

(***************************************************************************)
(* The HTTP layer: requests.post / requests.get send one request.          *)
(***************************************************************************)
TriggerRequestMethod == "POST"

\* Variant of StatusRequestMethod: the status query sent as a POST.
StatusRequestMethodPost == "POST"

StatusRequestMethod == "GET"

Request(method, what) ==
    /\ posts' = IF method = "POST" THEN posts + 1 ELSE posts
    /\ gets' = IF method = "GET" THEN gets + 1 ELSE gets
    /\ lastRequest' = what

\* The exception the three statements of trigger_job / get_job_status raise
\* for an answer of the service ("" when the call returns the decoded body).
RequestException(r) ==
    CASE r = "connection_error" -> "ConnectionError"   \* requests.post / requests.get
      [] r = "http_error" -> "HTTPError"               \* response.raise_for_status()
      [] r = "bad_json" -> "JSONDecodeError"           \* response.json()
      [] OTHER -> ""

params == <<entry, argc, maxAttempts, sleepInterval, verbose>>
net == <<posts, gets, lastRequest>>
clock == <<sleeps, slept, lastSleep>>
screen == <<displayed, lastLine, batchLine>>
process == <<exitCode, exitVia>>
polls == <<calls, pollAnswer, served, nonTerminalPolls>>

\* Where control goes when wait_for_completion ends (returns or raises).
WaitEnd == IF entry = "main" THEN "after_wait" ELSE "done"

\* An exception leaves wait_for_completion.
Raise(exc, fn) ==
    /\ outcome' = exc
    /\ raisedIn' = fn
    /\ pc' = WaitEnd

(***************************************************************************)
(* wait_for_completion                                                     *)
(***************************************************************************)
\* Variant of ForNext: a loop that tests its bound after the body, so the
\* first poll is made whatever max_attempts is.
ForNextAtLeastOnce ==
    /\ pc = "for"
    /\ IF attempt < maxAttempts \/ attempt = 0
       THEN /\ attempt' = attempt + 1
            /\ pc' = "get"
       ELSE /\ attempt' = attempt
            /\ pc' = "raise"
    /\ UNCHANGED <<params, status, jobStatus, result, outcome, raisedIn, message,
                   triggerOutcome, polls, clock, net, screen, process>>

\* Variant of ForNext: range(1, max_attempts + 2), one iteration too many.
ForNextOffByOne ==
    /\ pc = "for"
    /\ IF attempt <= maxAttempts
       THEN /\ attempt' = attempt + 1
            /\ pc' = "get"
       ELSE /\ attempt' = attempt
            /\ pc' = "raise"
    /\ UNCHANGED <<params, status, jobStatus, result, outcome, raisedIn, message,
                   triggerOutcome, polls, clock, net, screen, process>>

\* for attempt in range(1, max_attempts + 1): the next iteration, or the
\* loop is exhausted and control falls through to the raise statement.
ForNext ==
    /\ pc = "for"
    /\ IF attempt < maxAttempts
       THEN /\ attempt' = attempt + 1
            /\ pc' = "get"
       ELSE /\ attempt' = attempt
            /\ pc' = "raise"
    /\ UNCHANGED <<params, status, jobStatus, result, outcome, raisedIn, message,
                   triggerOutcome, polls, clock, net, screen, process>>

\* Variant of PollFails: a failed poll is swallowed and the loop goes on to
\* the sleep and the next attempt.
PollFailsRetried(exc) ==
    /\ pc' = "sleep"
    /\ UNCHANGED <<outcome, raisedIn, status, served, nonTerminalPolls>>

\* An exception raised in get_job_status is caught nowhere in
\* wait_for_completion: it leaves the loop and the function.
PollFails(exc) ==
    /\ Raise(exc, "get_job_status")
    /\ UNCHANGED <<status, served, nonTerminalPolls>>

\* status = self.get_job_status(job_id)
GetJobStatus ==
    /\ pc = "get"
    /\ \E r \in HttpResults, body \in Bodies :
        /\ calls' = calls + 1
        /\ pollAnswer' = r
        /\ Request(StatusRequestMethod, "status")
        /\ IF r = "ok"
           THEN /\ status' = body
                /\ served' = body
                /\ nonTerminalPolls' =
                      IF "status" \in body.keys /\ body.status \notin TerminalStatuses
                      THEN nonTerminalPolls + 1 ELSE nonTerminalPolls
                /\ pc' = "subscript"
                /\ UNCHANGED <<outcome, raisedIn>>
           ELSE PollFails(RequestException(r))
    /\ UNCHANGED <<params, attempt, jobStatus, result, message, triggerOutcome,
                   clock, screen, process>>

\* job_status = status["status"]
ReadStatus ==
    /\ pc = "subscript"
    /\ IF "status" \in status.keys
       THEN /\ jobStatus' = status.status
            /\ pc' = "verbose"
            /\ UNCHANGED <<outcome, raisedIn>>
       ELSE /\ Raise("KeyError", "wait_for_completion")
            /\ UNCHANGED jobStatus
    /\ UNCHANGED <<params, attempt, status, result, message, triggerOutcome, polls,
                   clock, net, screen, process>>

\* Variant of PrintRaises: batchProgress is subscripted, status["batchProgress"],
\* so a dict without the key raises as well.
PrintRaisesOnAbsentBatch(d) ==
    \/ "batchProgress" \notin d.keys
    \/ /\ d.batchProgress # {}
       /\ ~ (BatchCounters \subseteq d.batchProgress)

\* _print_status(attempt, status): the first line is always printed; the
\* batch line needs every counter of a truthy batchProgress.
PrintRaises(d) ==
    /\ "batchProgress" \in d.keys
    /\ d.batchProgress # {}
    /\ ~ (BatchCounters \subseteq d.batchProgress)

PrintsBatchLine(d) ==
    /\ "batchProgress" \in d.keys
    /\ d.batchProgress # {}
    /\ BatchCounters \subseteq d.batchProgress

FirstLine(a, d) ==
    [attempt |-> a,
     jobName |-> Get(d, "jobName", "Unknown"),
     jobType |-> Get(d, "jobType", "Unknown"),
     status |-> Get(d, "status", "Unknown")]

\* The exception that leaves the statement `if verbose: self._print_status(...)`
\* for the dict d when verbose is v ("": none).
PrintException(v, d) == IF v /\ PrintRaises(d) THEN "KeyError" ELSE ""

\* Variant of PrintStatus: the display is skipped for a terminal status, as
\* if the terminal test came first.
PrintStatusAfterTermination ==
    /\ pc = "verbose"
    /\ IF verbose /\ ~ IsTerminal(jobStatus)
       THEN /\ displayed' = Append(displayed, attempt)
            /\ lastLine' = FirstLine(attempt, status)
            /\ batchLine' = PrintsBatchLine(status)
       ELSE UNCHANGED screen
    /\ IF PrintException(verbose /\ ~ IsTerminal(jobStatus), status) # ""
       THEN Raise("KeyError", "_print_status")
       ELSE /\ pc' = "classify"
            /\ UNCHANGED <<outcome, raisedIn>>
    /\ UNCHANGED <<params, attempt, status, jobStatus, result, message,
                   triggerOutcome, polls, clock, net, process>>

\* if verbose: self._print_status(attempt, status)
PrintStatus ==
    /\ pc = "verbose"
    /\ IF verbose
       THEN /\ displayed' = Append(displayed, attempt)
            /\ lastLine' = FirstLine(attempt, status)
            /\ batchLine' = PrintsBatchLine(status)
       ELSE UNCHANGED screen
    /\ IF PrintException(verbose, status) # ""
       THEN Raise(PrintException(verbose, status), "_print_status")
       ELSE /\ pc' = "classify"
            /\ UNCHANGED <<outcome, raisedIn>>
    /\ UNCHANGED <<params, attempt, status, jobStatus, result, message,
                   triggerOutcome, polls, clock, net, process>>

\* if job_status in ("SUCCEEDED", "FAILED"): return status
Classify ==
    /\ pc = "classify"
    /\ IF IsTerminal(jobStatus)
       THEN /\ result' = status
            /\ outcome' = "returned"
            /\ pc' = WaitEnd
       ELSE /\ pc' = "sleep"
            /\ UNCHANGED <<result, outcome>>
    /\ UNCHANGED <<params, attempt, status, jobStatus, raisedIn, message,
                   triggerOutcome, polls, clock, net, screen, process>>

\* Variant of Sleep: the interval grows with the attempt (linear backoff).
SleepWithBackoff ==
    /\ pc = "sleep"
    /\ sleeps' = sleeps + 1
    /\ slept' = slept + sleepInterval * attempt
    /\ lastSleep' = sleepInterval * attempt
    /\ pc' = "for"
    /\ UNCHANGED <<params, attempt, status, jobStatus, result, outcome, raisedIn,
                   message, triggerOutcome, polls, net, screen, process>>

\* time.sleep(sleep_interval)
Sleep ==
    /\ pc = "sleep"
    /\ sleeps' = sleeps + 1
    /\ slept' = slept + sleepInterval
    /\ lastSleep' = sleepInterval
    /\ pc' = "for"
    /\ UNCHANGED <<params, attempt, status, jobStatus, result, outcome, raisedIn,
                   message, triggerOutcome, polls, net, screen, process>>

\* Variant of TimeoutSeconds: the time between the first and the last poll.
TimeoutSecondsBetweenPolls == (maxAttempts - 1) * sleepInterval

\* {max_attempts * sleep_interval} in the message of the TimeoutError
TimeoutSeconds == maxAttempts * sleepInterval

\* raise TimeoutError(f"Job did not complete within {max_attempts * sleep_interval} seconds")
RaiseTimeout ==
    /\ pc = "raise"
    /\ message' = TimeoutSeconds
    /\ Raise("TimeoutError", "wait_for_completion")
    /\ UNCHANGED <<params, attempt, status, jobStatus, result, triggerOutcome,
                   polls, clock, net, screen, process>>

(***************************************************************************)
(* main                                                                    *)
(***************************************************************************)
\* sys.exit(code) called by main
SysExit(code) ==
    /\ exitCode' = code
    /\ exitVia' = "sys.exit"
    /\ pc' = "done"

\* An exception no except clause of main names leaves main: the interpreter
\* prints the traceback and the process ends with status 1.
Uncaught ==
    /\ exitCode' = 1
    /\ exitVia' = "uncaught"
    /\ pc' = "done"

\* if len(sys.argv) != 2: ... sys.exit(1)
MainArgs ==
    /\ pc = "args"
    /\ IF argc # UsageArgc
       THEN SysExit(1)
       ELSE /\ pc' = "trigger"
            /\ UNCHANGED process
    /\ UNCHANGED <<params, attempt, status, jobStatus, result, outcome, raisedIn,
                   message, triggerOutcome, polls, clock, net, screen>>

\* trigger_response = client.trigger_job(job_id)
TriggerJob ==
    /\ pc = "trigger"
    /\ \E r \in HttpResults :
        /\ Request(TriggerRequestMethod, "trigger")
        /\ triggerOutcome' = IF r = "ok" THEN "ok" ELSE RequestException(r)
    /\ pc' = "after_trigger"
    /\ UNCHANGED <<params, attempt, status, jobStatus, result, outcome, raisedIn,
                   message, polls, clock, screen, process>>

\* Variant of MainAfterTrigger: the wait starts whatever trigger_job did.
MainAfterTriggerIgnoringFailure ==
    /\ pc = "after_trigger"
    /\ pc' = "for"
    /\ UNCHANGED <<params, attempt, status, jobStatus, result, outcome, raisedIn,
                   message, triggerOutcome, polls, clock, net, screen, process>>

\* the try statement around trigger_job: except requests.HTTPError: sys.exit(1)
MainAfterTrigger ==
    /\ pc = "after_trigger"
    /\ CASE triggerOutcome = "ok" -> pc' = "for" /\ UNCHANGED process
         [] triggerOutcome = "HTTPError" -> SysExit(1)
         [] OTHER -> Uncaught
    /\ UNCHANGED <<params, attempt, status, jobStatus, result, outcome, raisedIn,
                   message, triggerOutcome, polls, clock, net, screen>>

\* Variant of ExitCodeFor: the two except clauses share the exit status 2.
ExitCodeForHttpErrorAsTimeout(out, final) ==
    CASE out = "returned" -> IF final.status = "SUCCEEDED" THEN 0 ELSE 1
      [] out = "TimeoutError" -> 2
      [] out = "HTTPError" -> 2
      [] OTHER -> -1

\* Variant of ExitCodeFor: every returned dict exits with 0.
ExitCodeForFailedAsSuccess(out, final) ==
    CASE out = "returned" -> 0
      [] out = "TimeoutError" -> 2
      [] out = "HTTPError" -> 1
      [] OTHER -> -1

\* The exit status main chooses for the way wait_for_completion ended:
\* the if/else on final_status["status"] and the two except clauses.
\* -1: no clause of main handles it.
ExitCodeFor(out, final) ==
    CASE out = "returned" -> IF final.status = "SUCCEEDED" THEN 0 ELSE 1
      [] out = "TimeoutError" -> 2
      [] out = "HTTPError" -> 1
      [] OTHER -> -1

\* the try statement around wait_for_completion
MainAfterWait ==
    /\ pc = "after_wait"
    /\ IF ExitCodeFor(outcome, result) # -1
       THEN SysExit(ExitCodeFor(outcome, result))
       ELSE Uncaught
    /\ UNCHANGED <<params, attempt, status, jobStatus, result, outcome, raisedIn,
                   message, triggerOutcome, polls, clock, net, screen>>

Next ==
    \/ ForNext
    \/ GetJobStatus
    \/ ReadStatus
    \/ PrintStatus
    \/ Classify
    \/ Sleep
    \/ RaiseTimeout
    \/ MainArgs
    \/ TriggerJob
    \/ MainAfterTrigger
    \/ MainAfterWait

Spec == Init /\ [][Next]_vars

\* main blocks in nothing but requests and sleeps, which the model takes to return
FairSpec == Spec /\ WF_vars(Next)

TypeOK ==
    /\ entry \in {"main", "wait"}
    /\ pc \in {"args", "trigger", "after_trigger", "for", "get", "subscript", "verbose",
               "classify", "sleep", "raise", "after_wait", "done"}
    /\ outcome \in {"none", "returned", "TimeoutError", "HTTPError", "ConnectionError",
                    "JSONDecodeError", "KeyError"}
    /\ status \in Bodies
    /\ result \in Bodies
    /\ exitCode \in {-1, 0, 1, 2}
    /\ calls \in Nat /\ sleeps \in Nat /\ posts \in Nat /\ gets \in Nat

(***************************************************************************)
(* Claims.                                                                 *)
(***************************************************************************)
WaitEnded == outcome # "none"

ServedTerminal == "status" \in served.keys /\ served.status \in TerminalStatuses

\* the last get_job_status call failed (raised instead of returning a dict)
PollFailed == pollAnswer \notin {"", "ok"}

\* C1: for every maxAttempts >= 1, when every one of the first maxAttempts
\* get_job_status calls returns a dict with a non-terminal status, the wait
\* makes exactly maxAttempts calls, ends with TimeoutError and returns nothing.
C1_TimeoutAfterMaxAttempts ==
    (maxAttempts >= 1 /\ nonTerminalPolls = maxAttempts)
        => /\ calls = maxAttempts
           /\ outcome # "returned"
           /\ WaitEnded => outcome = "TimeoutError"

\* C2: when the polls 1..k-1 return a non-terminal status and poll k
\* (k <= maxAttempts) returns SUCCEEDED or FAILED, the wait returns exactly
\* the dict of poll k after exactly k calls; FAILED is returned, not raised.
C2_ReturnsTerminalRecord ==
    (WaitEnded /\ calls >= 1 /\ pollAnswer = "ok" /\ ServedTerminal
               /\ nonTerminalPolls = calls - 1)
        => /\ outcome = "returned"
           /\ result = served
           /\ calls = attempt
           /\ calls <= maxAttempts

\* C3: when the first get_job_status call returns a terminal status, the wait
\* returns that dict after exactly one call and no sleep.
C3_FirstPollTerminal ==
    (pollAnswer = "ok" /\ ServedTerminal /\ nonTerminalPolls = 0)
        => /\ calls = 1
           /\ sleeps = 0
           /\ WaitEnded => (outcome = "returned" /\ result = served)

\* C4: the wait sleeps only between two polls: after a non-terminal poll on
\* attempt = maxAttempts it raises TimeoutError without sleeping, so a wait
\* that times out has slept exactly maxAttempts - 1 times.
C4_NoSleepBeforeTimeout ==
    /\ pc = "sleep" => attempt < maxAttempts
    /\ (outcome = "TimeoutError" /\ maxAttempts >= 1) => sleeps = maxAttempts - 1

\* a get_job_status call raised ConnectionError, HTTPError or JSONDecodeError
RequestFailures == {"ConnectionError", "HTTPError", "JSONDecodeError"}

\* the attempts 1..n in order
Upto(n) == [i \in 1..n |-> i]

\* C5: a get_job_status call that fails on attempt k ends the wait at once
\* with that exception: no call and no sleep follows it, attempt k is not
\* displayed, nothing is returned, and every poll before it was a successful
\* non-terminal one (no failed poll was retried or skipped).
C5_FailedPollAborts ==
    /\ [](PollFailed =>
            /\ outcome = RequestException(pollAnswer)
            /\ outcome \in RequestFailures
            /\ raisedIn = "get_job_status"
            /\ calls = attempt
            /\ sleeps = attempt - 1
            /\ nonTerminalPolls = attempt - 1
            /\ displayed = (IF verbose THEN Upto(attempt - 1) ELSE <<>>))
    /\ [][PollFailed => UNCHANGED <<calls, gets, sleeps, displayed, outcome, result, attempt>>]_vars

C5_Witness ==
    /\ PollFailed
    /\ outcome = "HTTPError"
    /\ attempt = 2
    /\ verbose
    /\ pc = "done"

\* C6: a run of the script with one job identifier exits with 0 when the
\* wait returned a SUCCEEDED dict, with 1 when it returned a FAILED dict or
\* when the trigger request or a status request failed, and with 2 when the
\* wait timed out; every way the run ends gives one of these codes.
C6_ExitCodes ==
    (entry = "main" /\ argc = UsageArgc /\ pc = "done")
        => /\ exitCode \in {0, 1, 2}
           /\ (outcome = "returned" /\ result.status = "SUCCEEDED") => exitCode = 0
           /\ (outcome = "returned" /\ result.status = "FAILED") => exitCode = 1
           /\ triggerOutcome \in RequestFailures => exitCode = 1
           /\ outcome \in RequestFailures => exitCode = 1
           /\ outcome = "KeyError" => exitCode = 1
           /\ outcome = "TimeoutError" => exitCode = 2

C6_Witness ==
    /\ entry = "main"
    /\ pc = "done"
    /\ outcome = "TimeoutError"
    /\ calls = DefaultMaxAttempts
    /\ exitCode = 2

\* C7: the script sends the trigger request exactly once, before any status
\* request, and sends status requests only after trigger_job has returned;
\* when trigger_job fails the run ends without any get_job_status call.
C7_TriggerBeforeStatus ==
    entry = "main"
        => /\ posts <= 1
           /\ pc \notin {"args", "trigger"} /\ argc = UsageArgc => posts = 1
           /\ (gets > 0 \/ calls > 0) => (posts = 1 /\ triggerOutcome = "ok")
           /\ triggerOutcome \in RequestFailures => (gets = 0 /\ calls = 0 /\ outcome = "none")
           /\ (triggerOutcome \in RequestFailures /\ pc = "done") => exitCode = 1

C7_Witness ==
    /\ entry = "main"
    /\ triggerOutcome = "HTTPError"
    /\ pc = "done"
    /\ posts = 1
    /\ gets = 0

\* C8: verbose has no effect on control flow: the statement
\* `if verbose: self._print_status(attempt, status)` continues the same way
\* with verbose true and with verbose false for every dict a poll can return,
\* a batchProgress lacking a counter included: a wait this statement ended
\* would have been ended by it with the other value of verbose as well.
C8_VerboseNoControlFlow ==
    raisedIn = "_print_status" => PrintException(~verbose, status) = outcome

\* C9: when a 2xx answer to a status request lacks the status key,
\* get_job_status itself raises, and the script handles that like a failed
\* request: it ends with exit status 1 through an except clause of main.
C9_MissingStatusFailsInGetStatus ==
    (pollAnswer = "ok" /\ "status" \notin served.keys /\ WaitEnded)
        => /\ raisedIn = "get_job_status"
           /\ (entry = "main" /\ pc = "done") => (exitCode = 1 /\ exitVia = "sys.exit")

\* control is inside wait_for_completion
InWait == pc \in {"for", "get", "subscript", "verbose", "classify", "sleep", "raise"}

\* C10: get_job_status is read-only: every call sends exactly one GET and no
\* POST, so the number of state-changing requests the service has seen does
\* not change while wait_for_completion runs, however many polls it makes.
C10_GetStatusReadOnly ==
    /\ [](gets = calls)
    /\ [](entry = "wait" => posts = 0)
    /\ [][calls' # calls => (calls' = calls + 1 /\ gets' = gets + 1 /\ posts' = posts)]_vars
    /\ [][InWait => posts' = posts]_vars

C10_Witness ==
    /\ entry = "main"
    /\ calls = DefaultMaxAttempts
    /\ gets = DefaultMaxAttempts
    /\ posts = 1
    /\ outcome = "TimeoutError"

\* the last get_job_status call returned a dict that has the status key
Decoded == pollAnswer = "ok" /\ "status" \in served.keys

\* the display statement of the current attempt is behind
PastDisplay == pc \notin {"subscript", "verbose"}

\* C11: with verbose true every poll that returned a dict with a status is
\* displayed with its attempt number before the terminal test: the attempts
\* displayed are 1, 2, ..., n in order, one per such poll, the attempt that
\* returns a terminal status and the last attempt of a timed-out wait
\* included; with verbose false nothing is displayed.
C11_DisplayedBeforeTermination ==
    /\ ~ verbose => displayed = <<>>
    /\ verbose =>
          /\ displayed = Upto(IF calls >= 1 /\ Decoded /\ PastDisplay THEN calls ELSE
                              IF calls >= 1 THEN calls - 1 ELSE 0)
          /\ pc = "classify" =>
                (lastLine.attempt = attempt /\ lastLine.status = jobStatus)
          /\ outcome = "returned" =>
                (displayed = Upto(calls) /\ lastLine.attempt = calls
                    /\ lastLine.status = result.status)
          /\ (outcome = "TimeoutError" /\ maxAttempts >= 1) =>
                (displayed = Upto(maxAttempts) /\ lastLine.attempt = maxAttempts)

C11_Witness ==
    /\ verbose
    /\ entry = "wait"
    /\ outcome = "returned"
    /\ displayed = <<1, 2>>
    /\ lastLine.status = "FAILED"

\* a payload with the status key and none of jobName, jobType, batchProgress
Bare(d) == d.keys = {"status"}

\* the payload with the same status that carries the three optional fields
Complete(d) == Dict({"status", "jobName", "jobType", "batchProgress"}, d.status, BatchCounters)

\* C12: a payload that has status but lacks jobName, jobType and
\* batchProgress is no error: reading its status and displaying it raise
\* nothing, the display shows the "Unknown" defaults and no batch line, the
\* wait goes on to the terminal test exactly as for the payload carrying the
\* three fields, and it ends only by returning that payload (terminal
\* status) or by the timeout, with verbose true or false.
C12_AbsentFieldsDefaulted ==
    /\ [][(pc = "subscript" /\ Bare(status))
            => (pc' = "verbose" /\ outcome' = "none" /\ jobStatus' = status.status)]_vars
    /\ [][(pc = "verbose" /\ Bare(status))
            => /\ pc' = "classify"
               /\ outcome' = "none"
               /\ verbose => /\ lastLine' = [attempt |-> attempt, jobName |-> "Unknown",
                                             jobType |-> "Unknown", status |-> status.status]
                             /\ batchLine' = FALSE]_vars
    /\ []((pc \in {"subscript", "verbose"} /\ Bare(status))
            => \A v \in BOOLEAN :
                  /\ PrintException(v, status) = PrintException(v, Complete(status))
                  /\ PrintException(v, status) = "")
    /\ []((WaitEnded /\ pollAnswer = "ok" /\ Bare(served))
            => /\ outcome = (IF ServedTerminal THEN "returned" ELSE "TimeoutError")
               /\ outcome = "returned" => result = served
               /\ sleeps = (IF ServedTerminal THEN calls - 1 ELSE calls))

C12_Witness ==
    /\ verbose
    /\ pc = "classify"
    /\ Bare(status)
    /\ lastLine.attempt = attempt
    /\ lastLine.jobName = "Unknown"
    /\ lastLine.jobType = "Unknown"

\* C13: the TimeoutError names the budget max_attempts * sleep_interval, for
\* every max_attempts and sleep_interval with which the wait times out; for
\* max_attempts >= 0 that is the time the wait has slept.
C13_TimeoutBudget ==
    /\ outcome = "TimeoutError" => message = maxAttempts * sleepInterval
    /\ (outcome = "TimeoutError" /\ maxAttempts >= 0) => message = slept
    /\ outcome # "TimeoutError" => message = -1

C13_Witness ==
    /\ outcome = "TimeoutError"
    /\ maxAttempts = 3
    /\ sleepInterval = 2
    /\ message = 6

\* C14: a wait ends in exactly one of three ways: it returns a dict whose
\* status is SUCCEEDED or FAILED, it raises TimeoutError, or a failure of
\* get_job_status (a failed request, or a 2xx answer without the status key)
\* propagates; it never returns a dict with a non-terminal status.
C14_EndsInOneOfThreeWays ==
    WaitEnded =>
        \/ outcome = "returned" /\ "status" \in result.keys /\ result.status \in TerminalStatuses
        \/ outcome = "TimeoutError"
        \/ outcome \in RequestFailures /\ raisedIn = "get_job_status"
        \/ outcome = "KeyError" /\ raisedIn = "wait_for_completion" /\ "status" \notin served.keys

\* C15: polling is sequential with a fixed interval: exactly one sleep lies
\* between two consecutive get_job_status calls (the k+1-th call is made
\* after exactly k sleeps, a sleep after exactly as many calls), every sleep
\* lasts the configured sleep_interval, and calls come one at a time.
C15_FixedIntervalPolling ==
    /\ [](slept = sleeps * sleepInterval)
    /\ [](lastSleep = (IF sleeps = 0 THEN -1 ELSE sleepInterval))
    /\ [](calls >= 1 => sleeps \in {calls - 1, calls})
    /\ [][calls' # calls => (calls' = calls + 1 /\ sleeps = calls /\ sleeps' = sleeps)]_vars
    /\ [][sleeps' # sleeps => /\ sleeps' = sleeps + 1
                              /\ sleeps' = calls
                              /\ calls' = calls
                              /\ lastSleep' = sleepInterval
                              /\ slept' = slept + sleepInterval]_vars

C15_Witness ==
    /\ entry = "wait"
    /\ sleepInterval = 2
    /\ calls = 3
    /\ sleeps = 2
    /\ slept = 4
    /\ lastSleep = 2

\* the iteration of the last poll is past its terminal test
PastClassify == pc \notin {"subscript", "verbose", "classify"}

\* C16: only the exact values SUCCEEDED and FAILED stop the loop: after a
\* poll that returned any other status, values in another spelling included,
\* the wait goes on to the sleep and the next attempt or ends by the timeout
\* after the last attempt; after a poll that returned SUCCEEDED or FAILED it
\* returns that dict, the same way for both values.
C16_OnlyTerminalStatusesStop ==
    /\ (Decoded /\ ~ ServedTerminal /\ PastClassify)
          => /\ outcome \in {"none", "TimeoutError"}
             /\ outcome = "TimeoutError" => calls = maxAttempts
    /\ (Decoded /\ ServedTerminal /\ PastClassify)
          => (outcome = "returned" /\ result = served)

\* the for statement has not been executed yet
AtLoopEntry == pc = "for" /\ attempt = 0

\* C17 as stated: in every state of a wait (after the for statement first
\* ran) the attempt counter is between 1 and maxAttempts, the number of
\* get_job_status calls made equals it once the attempt's call is made, and
\* the number of calls never exceeds maxAttempts.
C17_AttemptWithinBudget ==
    ((InWait \/ WaitEnded) /\ ~ AtLoopEntry)
        => /\ 1 <= attempt
           /\ attempt <= maxAttempts
           /\ pc # "get" => calls = attempt
           /\ calls <= maxAttempts

\* C17 amended: for maxAttempts >= 1 the attempt counter, once the for
\* statement has bound it, is between 1 and maxAttempts; it starts at 1 and
\* increases by exactly 1, and only after a poll that returned a non-terminal
\* status; the number of calls equals it once the attempt's call is made
\* (attempt - 1 before) and never exceeds maxAttempts.  For maxAttempts <= 0
\* the loop body never runs: attempt is never bound and no call is made.
C17_AttemptWithinBudgetWhenPositive ==
    /\ [](attempt # 0 => (1 <= attempt /\ attempt <= maxAttempts))
    /\ [](maxAttempts <= 0 => (attempt = 0 /\ calls = 0))
    /\ [](calls = (IF pc = "get" THEN attempt - 1 ELSE attempt))
    /\ [](maxAttempts >= 1 => calls <= maxAttempts)
    /\ [](pc = "get" => nonTerminalPolls = attempt - 1)
    /\ [][attempt' # attempt
            => /\ attempt' = attempt + 1
               /\ attempt >= 1 => (Decoded /\ ~ ServedTerminal /\ nonTerminalPolls = attempt)]_vars

C17_Witness ==
    /\ maxAttempts = 3
    /\ attempt = 3
    /\ calls = 3
    /\ nonTerminalPolls = 3
    /\ pc = "raise"

\* C18: a wait called with max_attempts <= 0 makes no get_job_status call,
\* sends no request, sleeps and displays nothing, and ends at once with
\* TimeoutError: the timeout is reported for a job that was never polled.
C18_NoPollWithoutBudget ==
    /\ [](maxAttempts <= 0
            => /\ calls = 0 /\ gets = 0 /\ sleeps = 0 /\ slept = 0
               /\ displayed = <<>>
               /\ pollAnswer = ""
               /\ pc \in {"for", "raise", "done"}
               /\ outcome \in {"none", "TimeoutError"}
               /\ pc = "done" => (outcome = "TimeoutError" /\ message = maxAttempts * sleepInterval))
    /\ [][(maxAttempts <= 0 /\ pc = "for") => pc' = "raise"]_vars
    /\ [][(maxAttempts <= 0 /\ pc = "raise") => (pc' = "done" /\ outcome' = "TimeoutError")]_vars

C18_Witness ==
    /\ maxAttempts = 0
    /\ pc = "done"
    /\ outcome = "TimeoutError"
    /\ calls = 0
    /\ sleeps = 0

\* C19: the script exits with 0 only if trigger_job returned and the last
\* get_job_status call returned a dict with status SUCCEEDED, which the wait
\* returned; it exits with 2 only if all max_attempts polls were made and
\* every one returned a non-terminal status; a failed poll or a FAILED
\* status never gives exit status 0 or 2.
C19_ExitCodeOnlyIf ==
    entry = "main"
        => /\ exitCode = 0
                => /\ triggerOutcome = "ok"
                   /\ outcome = "returned"
                   /\ Decoded
                   /\ served.status = "SUCCEEDED"
                   /\ result = served
           /\ exitCode = 2
                => /\ triggerOutcome = "ok"
                   /\ outcome = "TimeoutError"
                   /\ pollAnswer = "ok"
                   /\ calls = maxAttempts
                   /\ nonTerminalPolls = maxAttempts
           /\ exitCode \in {0, 2}
                => /\ ~ PollFailed
                   /\ outcome \notin RequestFailures
                   /\ outcome # "KeyError"
                   /\ served.status # "FAILED"
                   /\ exitVia = "sys.exit"

C19_Witness ==
    /\ entry = "main"
    /\ pc = "done"
    /\ exitCode = 0
    /\ calls = 2
    /\ served.status = "SUCCEEDED"

====
